---------------------------- MODULE Spec2Model ----------------------------
(***************************************************************************)
(* A model of the receipt parser of receipt-ocr-service (src/main.go):     *)
(* parseReceiptData and categorizeItem, as called from handleOCR.          *)
(*                                                                         *)
(* Strings are sequences of characters; a character is a one-character     *)
(* string, and a character outside Latin-1 is written by its code point    *)
(* ("U+0142" is the Polish l with stroke, "U+00D7" the multiplication      *)
(* sign).  The empty string is <<>>.  Amounts (float64 in the code) are    *)
(* held exactly, in hundredths.                                            *)
(***************************************************************************)
EXTENDS Integers, Sequences, FiniteSets, TLC

VARIABLES
    texts,      \* the RecognizedText handed to parseReceiptData
    pc,         \* "idle" | "scan" | "panic"
    idx,        \* the line the range loop of parseReceiptData is at (1-based)
    receipt,    \* the Receipt under construction
    responses   \* what handleOCR has answered so far, oldest first

vars == <<texts, pc, idx, receipt, responses>>

---------------------------------------------------------------------------
(* Characters and the strings package                                      *)

Digit == {"0", "1", "2", "3", "4", "5", "6", "7", "8", "9"}

\* \s of Go's regexp (RE2): [\t\n\f\r ]
Space == {" ", "\t", "\n", "\f", "\r"}

\* [.,]
Sep == {".", ","}

\* [\s:]
SpaceOrColon == Space \cup {":"}

UpperCase ==
    <<"A", "B", "C", "D", "E", "F", "G", "H", "I", "J", "K", "L", "M", "N",
      "O", "P", "Q", "R", "S", "T", "U", "V", "W", "X", "Y", "Z",
      "U+017B", "U+0179", "U+0106", "U+0104", "U+015A", "U+0118", "U+0141",
      "U+00D3", "U+0143">>

LowerCase ==
    <<"a", "b", "c", "d", "e", "f", "g", "h", "i", "j", "k", "l", "m", "n",
      "o", "p", "q", "r", "s", "t", "u", "v", "w", "x", "y", "z",
      "U+017C", "U+017A", "U+0107", "U+0105", "U+015B", "U+0119", "U+0142",
      "U+00F3", "U+0144">>

UpperCaseLetters == {UpperCase[i] : i \in 1..Len(UpperCase)}

ToLowerChar(c) ==
    IF c \in UpperCaseLetters
    THEN LowerCase[CHOOSE i \in 1..Len(UpperCase) : UpperCase[i] = c]
    ELSE c

\* strings.ToLower
RECURSIVE ToLower(_)
ToLower(s) ==
    IF s = <<>> THEN <<>> ELSE <<ToLowerChar(Head(s))>> \o ToLower(Tail(s))

\* s[a:b] of Go with 1-based a and exclusive b
Slice(s, a, b) == SubSeq(s, a, b - 1)

\* strings.Contains
Contains(s, sub) ==
    \E p \in 1..(Len(s) - Len(sub) + 1) : \A i \in 1..Len(sub) : s[p + i - 1] = sub[i]

\* strings.Replace(s, ",", ".", -1)
ReplaceComma(s) == [i \in 1..Len(s) |-> IF s[i] = "," THEN "." ELSE s[i]]

RECURSIVE SplitFrom(_, _, _)
SplitFrom(s, start, p) ==
    IF p > Len(s) THEN <<Slice(s, start, p)>>
    ELSE IF s[p] = "\n" THEN <<Slice(s, start, p)>> \o SplitFrom(s, p + 1, p + 1)
    ELSE SplitFrom(s, start, p + 1)

\* strings.Split(s, "\n"): never empty, "" splits into one empty string
Split(s) == SplitFrom(s, 1, 1)

---------------------------------------------------------------------------
(* strconv                                                                 *)

DigitVal(c) == CHOOSE n \in 0..9 : <<"0", "1", "2", "3", "4", "5", "6", "7", "8", "9">>[n + 1] = c

RECURSIVE DigitsVal(_)
DigitsVal(s) ==
    IF s = <<>> THEN 0
    ELSE 10 * DigitsVal(SubSeq(s, 1, Len(s) - 1)) + DigitVal(s[Len(s)])

RECURSIVE Pow10(_)
Pow10(n) == IF n = 0 THEN 1 ELSE 10 * Pow10(n - 1)

IsDigits(s) == \A i \in 1..Len(s) : s[i] \in Digit

\* The position of the first "." of s, or 0
DotAt(s) ==
    IF \E p \in 1..Len(s) : s[p] = "."
    THEN CHOOSE p \in 1..Len(s) : s[p] = "." /\ \A q \in 1..(p - 1) : s[q] # "."
    ELSE 0

\* strconv.ParseFloat(s, 64) on the strings the patterns can hand it (no sign,
\* no exponent): digits with at most one ".", at least one digit in all.  The
\* value is num / 10^scale; anything else is a syntax error.
ParseFloat(s) ==
    LET d == DotAt(s)
        ip == IF d = 0 THEN s ELSE Slice(s, 1, d)
        fp == IF d = 0 THEN <<>> ELSE Slice(s, d + 1, Len(s) + 1)
    IN  IF IsDigits(ip) /\ IsDigits(fp) /\ Len(ip) + Len(fp) > 0
        THEN [err |-> "nil", num |-> DigitsVal(ip \o fp), scale |-> Len(fp)]
        ELSE [err |-> "ErrSyntax", num |-> 0, scale |-> 0]

\* A parsed amount with two decimals, in hundredths
Hundredths(f) ==
    IF f.scale <= 2 THEN f.num * Pow10(2 - f.scale) ELSE f.num \div Pow10(f.scale - 2)

\* int(f) of a non-negative float64: truncation
IntOf(f) == f.num \div Pow10(f.scale)

\* strconv.Atoi, its error dropped as the code drops it: 0 on a syntax error
Atoi(s) == IF s # <<>> /\ IsDigits(s) THEN DigitsVal(s) ELSE 0

---------------------------------------------------------------------------
(* regexp: a pattern is a sequence of pieces, each a character class with  *)
(* a greedy repetition count min..max (max = -1: no upper limit).  Matching *)
(* is leftmost-first, as in Go: at the leftmost start that matches at all, *)
(* each piece takes as much as it can and gives back one character at a    *)
(* time when the rest of the pattern fails.                                *)

\* fold: the class is of lower-case letters and matches either case, as
\* under (?i)
Piece(cls, min, max, fold) == [cls |-> cls, min |-> min, max |-> max, fold |-> fold]

One(cls)    == Piece(cls, 1, 1, FALSE)
Opt(cls)    == Piece(cls, 0, 1, FALSE)
Star(cls)   == Piece(cls, 0, -1, FALSE)
Plus(cls)   == Piece(cls, 1, -1, FALSE)
Rep(cls, n) == Piece(cls, n, n, FALSE)

\* a literal (lower-case) string under (?i)
RECURSIVE LiteralFold(_)
LiteralFold(s) ==
    IF s = <<>> THEN <<>> ELSE <<Piece({Head(s)}, 1, 1, TRUE)>> \o LiteralFold(Tail(s))

NoMatch == <<>>

InClass(c, piece) == IF piece.fold THEN ToLowerChar(c) \in piece.cls ELSE c \in piece.cls

\* How many characters from pos on the piece can take
RECURSIVE RunLen(_, _, _, _)
RunLen(piece, s, pos, max) ==
    IF max = 0 \/ pos > Len(s) THEN 0
    ELSE IF ~InClass(s[pos], piece) THEN 0
    ELSE 1 + RunLen(piece, s, pos + 1, max - 1)

\* The boundaries of the pieces of ps matched from pos (b[i] is where piece i
\* starts, the last element where the match ends), or NoMatch.  toEnd: $.
RECURSIVE MatchPieces(_, _, _, _)
RECURSIVE TryCount(_, _, _, _, _)
MatchPieces(ps, s, pos, toEnd) ==
    IF ps = <<>>
    THEN IF toEnd /\ pos # Len(s) + 1 THEN NoMatch ELSE <<pos>>
    ELSE TryCount(ps, s, pos, toEnd, RunLen(Head(ps), s, pos, Head(ps).max))

TryCount(ps, s, pos, toEnd, k) ==
    IF k < Head(ps).min THEN NoMatch
    ELSE LET r == MatchPieces(Tail(ps), s, pos + k, toEnd)
         IN  IF r # NoMatch THEN <<pos>> \o r
             ELSE TryCount(ps, s, pos, toEnd, k - 1)

\* The first alternative of alts (sequences of pieces) that matches at pos:
\* <<its index, its boundaries>>, or NoMatch
RECURSIVE MatchAlts(_, _, _, _, _)
MatchAlts(alts, n, s, pos, toEnd) ==
    IF n > Len(alts) THEN NoMatch
    ELSE LET b == MatchPieces(alts[n], s, pos, toEnd)
         IN  IF b # NoMatch THEN <<n, b>>
             ELSE MatchAlts(alts, n + 1, s, pos, toEnd)

\* The leftmost match of an unanchored pattern
RECURSIVE FindFrom(_, _, _)
FindFrom(alts, s, pos) ==
    IF pos > Len(s) + 1 THEN NoMatch
    ELSE LET m == MatchAlts(alts, 1, s, pos, FALSE)
         IN  IF m # NoMatch THEN m ELSE FindFrom(alts, s, pos + 1)

Find(alts, s) == FindFrom(alts, s, 1)

\* The text of pieces i..j of a match with boundaries b
Group(s, b, i, j) == Slice(s, b[i], b[j + 1])

---------------------------------------------------------------------------
(* The patterns of parseReceiptData.  Each returns what FindStringSubmatch *)
(* returns: <<whole match, group 1, ...>>, or <<>> (nil) without a match.  *)

Amount == <<Plus(Digit), One(Sep), Rep(Digit, 2)>>

\* (\d{4}-\d{2}-\d{2}), with FindString: the match, or "" without one
datePattern(line) ==
    LET m == Find(<< <<Rep(Digit, 4), One({"-"}), Rep(Digit, 2), One({"-"}), Rep(Digit, 2)>> >>, line)
    IN  IF m = NoMatch THEN <<>> ELSE Group(line, m[2], 1, 5)

TotalKeywords ==
    << 
       <<"s", "u", "m", "a">>, 
       <<"t", "o", "t", "a", "l">>, 
       <<"r", "a", "z", "e", "m">>, 
       <<"s", "u", "m", "a", " ", "p", "l", "c">>, 
       <<"s", "u", "m", "a", " ", "p", "l", "n">> >>

\* (?i)(suma|total|razem|suma plc|suma pln)[\s:]*(\d+[.,]\d{2})
totalPattern(line) ==
    LET alts == [n \in 1..Len(TotalKeywords) |->
                    LiteralFold(TotalKeywords[n]) \o <<Star(SpaceOrColon)>> \o Amount]
        m == Find(alts, line)
    IN  IF m = NoMatch THEN <<>>
        ELSE LET k == Len(TotalKeywords[m[1]])
             IN  <<Group(line, m[2], 1, k + 4), Group(line, m[2], 1, k), Group(line, m[2], k + 2, k + 4)>>

\* ^(\d+[.,]\d{2})$
standaloneTotalPattern(line) ==
    LET b == MatchPieces(Amount, line, 1, TRUE)
    IN  IF b = NoMatch THEN <<>> ELSE <<Group(line, b, 1, 3), Group(line, b, 1, 3)>>

\* (\d+[.,]?\d*)\s*x(\d+[.,]\d{2})\s*(\d+[.,]\d{2})C?
itemPattern(line) ==
    LET m == Find(<< <<Plus(Digit), Opt(Sep), Star(Digit), Star(Space), One({"x"})>>
                     \o Amount \o <<Star(Space)>> \o Amount \o <<Opt({"C"})>> >>, line)
    IN  IF m = NoMatch THEN <<>>
        ELSE <<Group(line, m[2], 1, 13), Group(line, m[2], 1, 3),
               Group(line, m[2], 6, 8), Group(line, m[2], 10, 12)>>

\* (\d+)\s*<mul>(\d+[.,]\d{2})\s*(\d+[.,]\d{2})C?
IntegerItem(mul, line) ==
    LET m == Find(<< <<Plus(Digit), Star(Space), One({mul})>>
                     \o Amount \o <<Star(Space)>> \o Amount \o <<Opt({"C"})>> >>, line)
    IN  IF m = NoMatch THEN <<>>
        ELSE <<Group(line, m[2], 1, 11), Group(line, m[2], 1, 1),
               Group(line, m[2], 4, 6), Group(line, m[2], 8, 10)>>

\* (\d+)\s*x(\d+[.,]\d{2})\s*(\d+[.,]\d{2})C?
simpleItemPattern(line) == IntegerItem("x", line)

\* the same with the multiplication sign U+00D7 for x
unicodeItemPattern(line) == IntegerItem("U+00D7", line)

---------------------------------------------------------------------------
(* categorizeItem                                                          *)

\* The map literal of categorizeItem: an unordered collection
categories ==
    {
       [category |-> "Meat", keywords |-> {
           <<"m", "i", "U+0119", "s", "o">>,
           <<"w", "i", "e", "p">>,
           <<"w", "o", "U+0142">>,
           <<"d", "r", "U+00F3", "b">>,
           <<"k", "u", "r", "c", "z", "a", "k">>,
           <<"i", "n", "d", "y", "k">>,
           <<"s", "z", "y", "n", "k", "a">>,
           <<"k", "i", "e", "U+0142", "b", "a", "s", "a">>,
           <<"p", "a", "r", "U+00F3", "w", "k", "i">>}],
       [category |-> "Dairy", keywords |-> {
           <<"m", "l", "e", "k", "o">>,
           <<"s", "e", "r">>,
           <<"j", "o", "g", "u", "r", "t">>,
           <<"U+015B", "m", "i", "e", "t", "a", "n", "a">>,
           <<"m", "a", "s", "U+0142", "o">>,
           <<"t", "w", "a", "r", "U+00F3", "g">>,
           <<"k", "e", "f", "i", "r">>}],
       [category |-> "Vegetables", keywords |-> {
           <<"k", "a", "p", "u", "s", "t", "a">>,
           <<"m", "a", "r", "c", "h", "e", "w">>,
           <<"c", "e", "b", "u", "l", "a">>,
           <<"z", "i", "e", "m", "n", "i", "a", "k">>,
           <<"p", "o", "m", "i", "d", "o", "r">>,
           <<"o", "g", "U+00F3", "r", "e", "k">>,
           <<"s", "a", "U+0142", "a", "t", "a">>,
           <<"s", "z", "c", "z", "y", "p", "i", "o", "r", "e", "k">>}],
       [category |-> "Fruits", keywords |-> {
           <<"j", "a", "b", "U+0142", "k", "o">>,
           <<"b", "a", "n", "a", "n">>,
           <<"g", "r", "u", "s", "z", "k", "a">>,
           <<"U+015B", "l", "i", "w", "k", "a">>,
           <<"w", "i", "n", "o", "g", "r", "o", "n", "o">>,
           <<"t", "r", "u", "s", "k", "a", "w", "k", "a">>,
           <<"m", "a", "l", "i", "n", "a">>}],
       [category |-> "Bakery", keywords |-> {
           <<"c", "h", "l", "e", "b">>,
           <<"b", "u", "U+0142", "k", "a">>,
           <<"r", "o", "g", "a", "l">>,
           <<"d", "r", "o", "U+017C", "d", "U+017C", "U+00F3", "w", "k", "a">>,
           <<"c", "i", "a", "s", "t", "o">>}],
       [category |-> "Beverages", keywords |-> {
           <<"w", "o", "d", "a">>,
           <<"s", "o", "k">>,
           <<"n", "a", "p", "U+00F3", "j">>,
           <<"k", "a", "w", "a">>,
           <<"h", "e", "r", "b", "a", "t", "a">>,
           <<"p", "i", "w", "o">>}],
       [category |-> "Groceries", keywords |-> {
           <<"r", "y", "U+017C">>,
           <<"m", "a", "k", "a", "r", "o", "n">>,
           <<"m", "U+0105", "k", "a">>,
           <<"c", "u", "k", "i", "e", "r">>,
           <<"s", "U+00F3", "l">>,
           <<"o", "l", "e", "j">>,
           <<"p", "r", "z", "y", "p", "r", "a", "w", "y">>,
           <<"b", "u", "l", "i", "o", "n">>,
           <<"k", "o", "n", "c", "e", "n", "t", "r", "a", "t">>}],
       [category |-> "Household", keywords |-> {
           <<"p", "a", "p", "i", "e", "r">>,
           <<"r", "U+0119", "c", "z", "n", "i", "k">>,
           <<"m", "y", "d", "U+0142", "o">>,
           <<"p", "r", "o", "s", "z", "e", "k">>,
           <<"p", "U+0142", "y", "n">>}]
    }

CategoryNames == {c.category : c \in categories}

Other == "Other"

\* The categories with a keyword that is a substring of the lower-cased name
Matching(name) ==
    LET lower == ToLower(name)
    IN  {c.category : c \in {d \in categories : \E k \in d.keywords : Contains(lower, k)}}

\* categorizeItem without the strings.ToLower of its first line
categorizeItemCaseSensitive(name) ==
    LET m == {c.category : c \in {d \in categories : \E k \in d.keywords : Contains(name, k)}}
    IN  IF m = {} THEN {Other} ELSE m

\* The values categorizeItem(name) can return.  It returns the first category,
\* in the order the range over the map visits them, that has a matching
\* keyword; Go leaves the order of a range over a map unspecified and the
\* runtime starts it at a random place, so each matching category can be the
\* first one visited.
categorizeItem(name) ==
    IF Matching(name) = {} THEN {Other} ELSE Matching(name)

---------------------------------------------------------------------------
(* parseReceiptData                                                        *)

\* What a slice index out of range does to the goroutine
Panic == <<"runtime error: index out of range">>

\* s[i] of Go at the 1-based index i
At(s, i) == IF i \in 1..Len(s) THEN s[i] ELSE Panic

EmptyReceipt(t) ==
    [Merchant |-> <<>>, Date |-> <<>>, TotalAmount |-> 0, Items |-> <<>>, RawText |-> t]

BusinessSuffix1 == <<"s", "p", ".", " ", "z", " ", "o", ".", "o", ".">>
BusinessSuffix2 == <<"s", "p", ".", " ", "z", " ", "o", ".", " ", "o", ".">>

\* The for loop over the lines of the first text block
RECURSIVE MerchantFrom(_, _)
MerchantFrom(lines, i) ==
    IF i > Len(lines) THEN <<>>
    ELSE IF Contains(lines[i], BusinessSuffix1) \/ Contains(lines[i], BusinessSuffix2)
         THEN lines[i]
    ELSE IF i - 1 = 5 THEN lines[i]
    ELSE MerchantFrom(lines, i + 1)

\* The merchant name as the first line with a business suffix wherever it
\* stands, whatever the number of lines
extractMerchantAnyLine(t) ==
    IF Len(t) > 0
    THEN LET lines == Split(t[1])
             marked == {k \in 1..Len(lines) :
                           Contains(lines[k], BusinessSuffix1) \/ Contains(lines[k], BusinessSuffix2)}
         IN  IF marked = {} THEN lines[1]
             ELSE lines[CHOOSE k \in marked : \A j \in marked : k <= j]
    ELSE <<>>

\* The merchant name from the first few lines
extractMerchant(t) ==
    IF Len(t) > 0
    THEN LET lines == Split(t[1])
         IN  IF Len(lines) > 5 THEN MerchantFrom(lines, 1) ELSE At(lines, 1)
    ELSE <<>>

\* extractDate without the test receipt.Date == ""
extractDateUnguarded(date, line) ==
    LET dateMatch == datePattern(line)
    IN  IF dateMatch # <<>> THEN dateMatch ELSE date

\* Extract date
extractDate(date, line) ==
    LET dateMatch == datePattern(line)
    IN  IF dateMatch # <<>> /\ date = <<>> THEN dateMatch ELSE date

\* extractTotal without the test receipt.TotalAmount == 0
extractTotalUnguarded(total, line) ==
    LET totalMatch == totalPattern(line)
    IN  IF Len(totalMatch) > 2
        THEN LET f == ParseFloat(ReplaceComma(totalMatch[3]))
             IN  IF f.err = "nil" THEN Hundredths(f) ELSE total
        ELSE total

\* Extract total amount
extractTotal(total, line) ==
    LET totalMatch == totalPattern(line)
    IN  IF Len(totalMatch) > 2 /\ total = 0
        THEN LET f == ParseFloat(ReplaceComma(totalMatch[3]))
             IN  IF f.err = "nil" THEN Hundredths(f) ELSE total
        ELSE total

\* sum > 10.0, in hundredths
StandaloneThreshold == 1000

\* extractStandaloneTotal without the test receipt.TotalAmount == 0
extractStandaloneTotalUnguarded(total, line) ==
    LET sumMatch == standaloneTotalPattern(line)
    IN  IF Len(sumMatch) > 1
        THEN LET f == ParseFloat(ReplaceComma(sumMatch[2]))
             IN  IF f.err = "nil" /\ Hundredths(f) > StandaloneThreshold
                 THEN Hundredths(f) ELSE total
        ELSE total

\* Look for standalone numbers that might be the total
extractStandaloneTotal(total, line) ==
    IF total = 0
    THEN LET sumMatch == standaloneTotalPattern(line)
         IN  IF Len(sumMatch) > 1
             THEN LET f == ParseFloat(ReplaceComma(sumMatch[2]))
                  IN  IF f.err = "nil" /\ Hundredths(f) > StandaloneThreshold
                      THEN Hundredths(f) ELSE total
             ELSE total
    ELSE total

UnknownItem == <<"U", "n", "k", "n", "o", "w", "n", " ", "I", "t", "e", "m">>
Suma  == <<"s", "u", "m", "a">>
Total == <<"t", "o", "t", "a", "l">>
Razem == <<"r", "a", "z", "e", "m">>

\* findItemName without the test i > 0
findItemNameUnguarded(t, line) ==
    IF \E k \in 1..Len(t) : t[k] = line
    THEN LET k == CHOOSE k \in 1..Len(t) :
                      t[k] = line /\ \A j \in 1..(k - 1) : t[j] # line
         IN  At(t, k - 1)
    ELSE UnknownItem

\* findItemName with the last occurrence of the line for the first
findItemNameLastOccurrence(t, line) ==
    IF \E k \in 1..Len(t) : t[k] = line /\ k - 1 > 0
    THEN LET k == CHOOSE k \in 1..Len(t) :
                      /\ t[k] = line /\ k - 1 > 0
                      /\ \A j \in (k + 1)..Len(t) : t[j] # line
         IN  At(t, k - 1)
    ELSE UnknownItem

\* Try to find the item name in the previous line: the loop stops at the first
\* i > 0 with texts[i] == line (i is 0-based in the code, k = i + 1 here)
findItemName(t, line) ==
    IF \E k \in 1..Len(t) : t[k] = line /\ k - 1 > 0
    THEN LET k == CHOOSE k \in 1..Len(t) :
                      /\ t[k] = line /\ k - 1 > 0
                      /\ \A j \in 1..(k - 1) : ~(t[j] = line /\ j - 1 > 0)
         IN  At(t, k - 1)
    ELSE UnknownItem

\* The test that keeps an item, in the branch of itemPattern
keepQuantityItem(err, itemName) ==
    /\ err = "nil"
    /\ ~Contains(ToLower(itemName), Suma)
    /\ ~Contains(ToLower(itemName), Total)

\* The test that keeps an item, in the branches of simpleItemPattern and
\* unicodeItemPattern
keepIntegerItem(err, itemName) ==
    /\ err = "nil"
    /\ ~Contains(ToLower(itemName), Suma)
    /\ ~Contains(ToLower(itemName), Total)
    /\ ~Contains(ToLower(itemName), Razem)

\* The quantity of the branch of itemPattern: parsed as a float, its error
\* dropped, then int(quantity)
quantityOf(quantityStr) == IntOf(ParseFloat(ReplaceComma(quantityStr)))

Item(name, price, quantity, category) ==
    [Name |-> name, Price |-> price, Quantity |-> quantity, Category |-> category]

\* The chain with the test of unicodeItemPattern first
extractItemsUnicodeFirst(items, t, line) ==
    LET unicodeMatch == unicodeItemPattern(line)
        itemMatch    == itemPattern(line)
        itemName     == findItemName(t, line)
        m            == IF Len(unicodeMatch) > 3 THEN unicodeMatch ELSE itemMatch
        quantity     == IF Len(unicodeMatch) > 3 THEN Atoi(m[2]) ELSE quantityOf(m[2])
    IN  IF Len(m) > 3 /\ itemName # Panic
           /\ keepQuantityItem(ParseFloat(ReplaceComma(m[4])).err, itemName)
        THEN {[panic |-> FALSE,
               Items |-> Append(items, Item(itemName, Hundredths(ParseFloat(ReplaceComma(m[4]))), quantity, c))] :
                 c \in categorizeItem(itemName)}
        ELSE {[panic |-> Len(m) > 3 /\ itemName = Panic, Items |-> items]}

\* Extract items with quantity and price: the item lists the if / else-if
\* chain can leave, one for each category categorizeItem can return; panic:
\* finding the name panicked
extractItems(items, t, line) ==
    LET itemMatch    == itemPattern(line)
        simpleMatch  == simpleItemPattern(line)
        unicodeMatch == unicodeItemPattern(line)
        itemName     == findItemName(t, line)
    IN  IF Len(itemMatch) > 3
        THEN LET price == ParseFloat(ReplaceComma(itemMatch[4]))
             IN  IF itemName = Panic THEN {[panic |-> TRUE, Items |-> items]}
                 ELSE IF keepQuantityItem(price.err, itemName)
                 THEN {[panic |-> FALSE, Items |-> Append(items, Item(itemName, Hundredths(price), quantityOf(itemMatch[2]), c))] :
                          c \in categorizeItem(itemName)}
                 ELSE {[panic |-> FALSE, Items |-> items]}
        ELSE IF Len(simpleMatch) > 3
        THEN LET price == ParseFloat(ReplaceComma(simpleMatch[4]))
             IN  IF itemName = Panic THEN {[panic |-> TRUE, Items |-> items]}
                 ELSE IF keepIntegerItem(price.err, itemName)
                 THEN {[panic |-> FALSE, Items |-> Append(items, Item(itemName, Hundredths(price), Atoi(simpleMatch[2]), c))] :
                          c \in categorizeItem(itemName)}
                 ELSE {[panic |-> FALSE, Items |-> items]}
        ELSE IF Len(unicodeMatch) > 3
        THEN LET price == ParseFloat(ReplaceComma(unicodeMatch[4]))
             IN  IF itemName = Panic THEN {[panic |-> TRUE, Items |-> items]}
                 ELSE IF keepIntegerItem(price.err, itemName)
                 THEN {[panic |-> FALSE, Items |-> Append(items, Item(itemName, Hundredths(price), Atoi(unicodeMatch[2]), c))] :
                          c \in categorizeItem(itemName)}
                 ELSE {[panic |-> FALSE, Items |-> items]}
        ELSE {[panic |-> FALSE, Items |-> items]}

---------------------------------------------------------------------------
(* The requests.  handleOCR hands the texts of the recognizer to           *)
(* parseReceiptData and answers with the Receipt.  The recognizer may      *)
(* render the multiplication glyph of an item line as x or as U+00D7; a    *)
(* later request carries the same text again, or the same text with the    *)
(* other glyph in one of its lines.                                        *)

MaxLines == 4
MaxCalls == 2

RECURSIVE SeqsUpTo(_, _)
SeqsUpTo(S, n) ==
    IF n = 0 THEN {<<>>}
    ELSE LET shorter == SeqsUpTo(S, n - 1)
         IN  shorter \cup {Append(s, x) : s \in {q \in shorter : Len(q) = n - 1}, x \in S}

\* Where the x of an integer-quantity item line stands (0: no such line)
multiplicationSignAt(line) ==
    LET m == Find(<< <<Plus(Digit), Star(Space), One({"x"})>>
                     \o Amount \o <<Star(Space)>> \o Amount \o <<Opt({"C"})>> >>, line)
    IN  IF m = NoMatch THEN 0 ELSE m[2][3]

\* The line with U+00D7 for that x
withUnicodeSign(line) == [line EXCEPT ![multiplicationSignAt(line)] = "U+00D7"]

\* t with the glyph of line i changed
glyphVariant(t, i) == [t EXCEPT ![i] = withUnicodeSign(t[i])]

Resubmissions(t) ==
    {t} \cup {glyphVariant(t, i) : i \in {j \in 1..Len(t) : multiplicationSignAt(t[j]) # 0}}

\* Some lines of receipts
LineEmpty    == <<>>
LineMleko    == <<"M", "L", "E", "K", "O">>
LineSok      == <<"S", "o", "k", " ", "j", "a", "b", "U+0142", "k", "o", "w", "y">>
LineXYZ      == <<"X", "Y", "Z", "1", "2", "3">>
LineMilkItem == <<"1", " ", "x", "3", ",", "9", "9", " ", "3", ",", "9", "9", "C">>

Lines == {LineEmpty, LineMleko, LineSok, LineXYZ, LineMilkItem}

\* Lines about the total
LineTotal      == <<"T", "o", "t", "a", "l", " ", "4", "5", ",", "6", "7">>
LineStandalone == <<"9", "9", ",", "9", "9">>
LineSmall      == <<"5", ",", "0", "0">>
LineSumaZero   == <<"S", "u", "m", "a", ":", " ", "0", ",", "0", "0">>
LineRazemTotal == <<"R", "A", "Z", "E", "M", " ", "1", "2", ",", "5", "0">>

TotalLines == {LineTotal, LineStandalone, LineSmall, LineSumaZero, LineRazemTotal}

\* Lines about the items
LineMilk        == <<"M", "i", "l", "k">>
LineBread       == <<"B", "r", "e", "a", "d">>
LineBreadItem   == <<"2", " ", "x", "2", ",", "4", "9", " ", "4", ",", "9", "8", "C">>
LineWeightItem  == <<"0", ",", "5", " ", "x", "3", ",", "9", "9", " ", "2", ",", "0", "0", "C">>
LineRazemItem   == <<"R", "a", "z", "e", "m", " ", "1", " ", "x", "3", ",", "9", "9", " ", "3", ",", "9", "9">>

ItemLines == {LineMilk, LineBread, LineBreadItem, LineWeightItem, LineRazemItem}

\* Item lines that carry their name
LineMilkNamed ==
    <<"M", "i", "l", "k", " ", "1", " ", "x", "3", ",", "9", "9", " ", "3", ",", "9", "9", "C">>
LineJuiceNamed ==
    <<"J", "u", "i", "c", "e", " ", "2", " ", "U+00D7", "2", ",", "4", "9", " ", "4", ",", "9", "8">>

NamedLines == {LineBread, LineMilkNamed, LineJuiceNamed}

\* Lines about the date
LineDate       == <<"2", "0", "2", "4", "-", "0", "1", "-", "1", "5">>
LineBadMonth   == <<"D", "a", "t", "a", " ", "2", "0", "2", "3", "-", "1", "3", "-", "4", "5">>
LineTwoDates   == <<"1", "2", "0", "2", "2", "-", "0", "3", "-", "0", "5", "1", " ", "2", "0", "2", "2", "-", "0", "4", "-", "0", "6">>
LineShortYear  == <<"2", "4", "-", "0", "1", "-", "1", "5">>

DateLines == {LineMilk, LineDate, LineBadMonth, LineTwoDates, LineShortYear}

\* Item lines with either sign, and one with both
LineBothSigns == <<"2", " ", "U+00D7", "2", ",", "4", "9", " ", "4", ",", "9", "8", " ", "1", " ", "x", "3", ",", "9", "9", " ", "3", ",", "9", "9">>
LineJuiceItem == <<"3", " ", "U+00D7", "1", ",", "5", "0", " ", "4", ",", "5", "0">>
LineSuma      == <<"S", "u", "m", "a">>

OrderLines == {LineMilk, LineSuma, LineBreadItem, LineJuiceItem, LineBothSigns}

\* A line with a date, a total and an item, among lines with one of them
LineAll == <<"2", "0", "2", "4", "-", "0", "2", "-", "0", "2", " ", "S", "u", "m", "a", " ", "1", "2", ",", "5", "0", " ", "1", " ", "x", "3", ",", "9", "9", " ", "3", ",", "9", "9">>

MixedLines == {LineMilk, LineDate, LineTotal, LineBreadItem, LineAll}

\* A name with blanks around it, among names and item lines of either sign
LinePadded == <<" ", "M", "i", "l", "k", " ">>

LookupLines == {LinePadded, LineBread, LineBreadItem, LineJuiceItem}

\* First text blocks: the whole text of the receipt, its lines joined by \n.
\* Line k of a block is the k-th capital letter, with a business suffix on the
\* lines of M (sp. z o.o. on odd lines, sp. z o. o. on even ones)
MaxBlockLines == 8

BlockLine(k, M) ==
    <<UpperCase[k]>> \o (IF k \notin M THEN <<>>
                         ELSE <<" ">> \o (IF k % 2 = 1 THEN BusinessSuffix1 ELSE BusinessSuffix2))

RECURSIVE Block(_, _)
Block(n, M) ==
    IF n = 1 THEN BlockLine(1, M) ELSE Block(n - 1, M) \o <<"\n">> \o BlockLine(n, M)

Blocks ==
    {Block(n, M) : <<n, M>> \in {q \in (1..MaxBlockLines) \X SUBSET (1..MaxBlockLines) :
                                      q[2] \subseteq 1..q[1] /\ Cardinality(q[2]) <= 2}}

\* A later text: one word of the receipt, here one with a business suffix
LineCompany == <<"Z", " ">> \o BusinessSuffix1

InitWith(L) ==
    /\ texts \in SeqsUpTo(L, MaxLines)
    /\ pc = "idle"
    /\ idx = 0
    /\ receipt = EmptyReceipt(texts)
    /\ responses = <<>>

Init == InitWith(Lines)

\* handleOCR up to the loop of parseReceiptData: the fresh Receipt and the
\* merchant name
Call ==
    /\ pc = "idle"
    /\ Len(responses) < MaxCalls
    /\ texts' \in (IF responses = <<>> THEN {texts} ELSE Resubmissions(texts))
    /\ LET merchant == extractMerchant(texts')
       IN  IF merchant = Panic
           THEN /\ pc' = "panic"
                /\ receipt' = EmptyReceipt(texts')
           ELSE /\ pc' = "scan"
                /\ receipt' = [EmptyReceipt(texts') EXCEPT !.Merchant = merchant]
    /\ idx' = 1
    /\ UNCHANGED responses

\* One iteration of the loop with a date step that keeps the line of the
\* date as the merchant too
ScanLineDateAsMerchant ==
    /\ pc = "scan"
    /\ idx <= Len(texts)
    /\ LET line  == texts[idx]
           date  == extractDate(receipt.Date, line)
           total == extractStandaloneTotal(extractTotal(receipt.TotalAmount, line), line)
       IN  \E out \in extractItems(receipt.Items, texts, line) :
              /\ pc' = IF out.panic THEN "panic" ELSE "scan"
              /\ idx' = IF out.panic THEN idx ELSE idx + 1
              /\ receipt' = [receipt EXCEPT !.Date = date, !.TotalAmount = total,
                                            !.Items = out.Items,
                                            !.Merchant = IF date # receipt.Date THEN line ELSE @]
    /\ UNCHANGED <<texts, responses>>

\* One iteration of the loop over texts
ScanLine ==
    /\ pc = "scan"
    /\ idx <= Len(texts)
    /\ LET line  == texts[idx]
           date  == extractDate(receipt.Date, line)
           total == extractStandaloneTotal(extractTotal(receipt.TotalAmount, line), line)
       IN  \E out \in extractItems(receipt.Items, texts, line) :
              IF out.panic
              THEN /\ pc' = "panic"
                   /\ receipt' = [receipt EXCEPT !.Date = date, !.TotalAmount = total]
                   /\ idx' = idx
              ELSE /\ pc' = "scan"
                   /\ receipt' = [receipt EXCEPT !.Date = date, !.TotalAmount = total,
                                                 !.Items = out.Items]
                   /\ idx' = idx + 1
    /\ UNCHANGED <<texts, responses>>

\* return receipt, nil; and the answer of handleOCR
Return ==
    /\ pc = "scan"
    /\ idx > Len(texts)
    /\ responses' = Append(responses, [Success |-> TRUE, Text |-> texts,
                                       Receipt |-> receipt, err |-> "nil"])
    /\ pc' = "idle"
    /\ UNCHANGED <<texts, idx, receipt>>

Next == Call \/ ScanLine \/ Return

Spec == Init /\ [][Next]_vars

\* The same program on receipts made of the lines about the total
InitTotal == InitWith(TotalLines)
SpecTotal == InitTotal /\ [][Next]_vars

\* The same program on receipts made of the lines about the items
InitItems == InitWith(ItemLines)
SpecItems == InitItems /\ [][Next]_vars

\* The same program on receipts whose item lines carry their name
InitNamed == InitWith(NamedLines)
SpecNamed == InitNamed /\ [][Next]_vars

\* The same program on receipts made of the lines about the date
InitDate == InitWith(DateLines)
SpecDate == InitDate /\ [][Next]_vars

\* The same program on receipts with item lines of either sign
InitOrder == InitWith(OrderLines)
SpecOrder == InitOrder /\ [][Next]_vars

\* The same program on receipts with dates, totals and items
InitMixed == InitWith(MixedLines)
SpecMixed == InitMixed /\ [][Next]_vars

\* The same program on receipts with repeated item lines
InitLookup == InitWith(LookupLines)
SpecLookup == InitLookup /\ [][Next]_vars

\* The same program on texts that begin with a block of lines
InitMerchant ==
    /\ texts \in {<<>>} \cup {<<b>> : b \in Blocks} \cup {<<b, LineCompany>> : b \in Blocks}
    /\ pc = "idle"
    /\ idx = 0
    /\ receipt = EmptyReceipt(texts)
    /\ responses = <<>>

SpecMerchant == InitMerchant /\ [][Next]_vars

---------------------------------------------------------------------------
(* Concurrent requests.  net/http serves every request on a goroutine of   *)
(* its own; handleOCR and parseReceiptData keep texts, receipt and the     *)
(* loop position in locals, and the file declares no package variable.     *)
(* Here each variable holds the locals of every request: texts[r] is the   *)
(* texts of request r, and so on.                                          *)

MaxRequests == 2
MaxRequestLines == 2

Requests == 1..MaxRequests

RequestLines == {LineSok, LineMilkItem, LineTotal}

InitConcurrent ==
    /\ texts \in [Requests -> SeqsUpTo(RequestLines, MaxRequestLines)]
    /\ pc = [r \in Requests |-> "idle"]
    /\ idx = [r \in Requests |-> 0]
    /\ receipt = [r \in Requests |-> EmptyReceipt(texts[r])]
    /\ responses = [r \in Requests |-> <<>>]

\* Request r enters parseReceiptData
CallOf(r) ==
    /\ pc[r] = "idle"
    /\ LET merchant == extractMerchant(texts[r])
       IN  IF merchant = Panic
           THEN /\ pc' = [pc EXCEPT ![r] = "panic"]
                /\ receipt' = [receipt EXCEPT ![r] = EmptyReceipt(texts[r])]
           ELSE /\ pc' = [pc EXCEPT ![r] = "scan"]
                /\ receipt' = [receipt EXCEPT ![r] = [EmptyReceipt(texts[r]) EXCEPT !.Merchant = merchant]]
    /\ idx' = [idx EXCEPT ![r] = 1]
    /\ UNCHANGED <<texts, responses>>

\* One iteration of the loop of request r, on the items of request s: its own
scanLineOn(r, s) ==
    /\ pc[r] = "scan"
    /\ idx[r] <= Len(texts[r])
    /\ LET line  == texts[r][idx[r]]
           date  == extractDate(receipt[r].Date, line)
           total == extractStandaloneTotal(extractTotal(receipt[r].TotalAmount, line), line)
       IN  \E out \in extractItems(receipt[s].Items, texts[r], line) :
              IF out.panic
              THEN /\ pc' = [pc EXCEPT ![r] = "panic"]
                   /\ receipt' = [receipt EXCEPT ![r].Date = date, ![r].TotalAmount = total]
                   /\ idx' = idx
              ELSE /\ pc' = pc
                   /\ receipt' = [receipt EXCEPT ![r].Date = date, ![r].TotalAmount = total,
                                                 ![s].Items = out.Items]
                   /\ idx' = [idx EXCEPT ![r] = idx[r] + 1]
    /\ UNCHANGED <<texts, responses>>

\* An iteration of request r that appends to whichever receipt
ScanLineOfShared(r) == \E s \in Requests : scanLineOn(r, s)

ScanLineOf(r) == scanLineOn(r, r)

\* Request r returns and is answered
ReturnOf(r) ==
    /\ pc[r] = "scan"
    /\ idx[r] > Len(texts[r])
    /\ responses' = [responses EXCEPT ![r] =
                        <<[Success |-> TRUE, Text |-> texts[r], Receipt |-> receipt[r], err |-> "nil"]>>]
    /\ pc' = [pc EXCEPT ![r] = "done"]
    /\ UNCHANGED <<texts, idx, receipt>>

NextConcurrent == \E r \in Requests : CallOf(r) \/ ScanLineOf(r) \/ ReturnOf(r)

SpecConcurrent == InitConcurrent /\ [][NextConcurrent]_vars

---------------------------------------------------------------------------
(* Properties                                                              *)

Answered == 1..Len(responses)

ItemsOf(r) == {r.Items[i] : i \in 1..Len(r.Items)}

\* Every item made so far: of the answered receipts and of the one in hand
EveryItem == UNION ({ItemsOf(responses[i].Receipt) : i \in Answered} \cup {ItemsOf(receipt)})

HasLine(t, l) == \E k \in 1..Len(t) : t[k] = l

HasDateLine(t) == \E k \in 1..Len(t) : datePattern(t[k]) # <<>>

HasTotalLine(t) ==
    \E k \in 1..Len(t) : totalPattern(t[k]) # <<>> \/ standaloneTotalPattern(t[k]) # <<>>

HasItemLine(t) ==
    \E k \in 1..Len(t) : itemPattern(t[k]) # <<>> \/ unicodeItemPattern(t[k]) # <<>>

\* No call has panicked, and every answer carries a nil error, the text it
\* was made from, and empty or zero fields for what the text does not hold
AnswersAreWhole ==
    /\ pc # "panic"
    /\ \A i \in Answered :
          LET t == responses[i].Text
              r == responses[i].Receipt
          IN  /\ responses[i].err = "nil"
              /\ r.RawText = t
              /\ ~HasDateLine(t) => r.Date = <<>>
              /\ ~HasTotalLine(t) => r.TotalAmount = 0
              /\ ~HasItemLine(t) => r.Items = <<>>

\* C1: for every RecognizedText (the empty sequence, empty lines and lines
\* that match no rule among them) parseReceiptData never panics and returns
\* a Receipt with a nil error whose date, total and items are empty or zero
\* when the text holds none; it terminates: every step of a call either
\* moves to the next line of the same text or, past the last line, returns.
C1_TotalFunction ==
    /\ []AnswersAreWhole
    /\ [](pc = "scan" => idx \in 1..(Len(texts) + 1))
    /\ [][pc = "scan" =>
            \/ pc' = "scan" /\ idx' = idx + 1 /\ texts' = texts
            \/ pc' = "idle" /\ idx = Len(texts) + 1 /\ Len(responses') = Len(responses) + 1]_vars

\* A text with an empty line, a line no rule matches and an item line has
\* been answered, with an item and without a date
C1_Witness ==
    \E i \in Answered :
        /\ HasLine(responses[i].Text, LineEmpty)
        /\ HasLine(responses[i].Text, LineXYZ)
        /\ HasLine(responses[i].Text, LineMilkItem)
        /\ responses[i].Receipt.Items # <<>>
        /\ responses[i].Receipt.Date = <<>>

\* C2: two runs of parseReceiptData on the same RecognizedText give the same
\* Receipt: merchant, date, total and the items with their names, prices,
\* quantities and categories, in the same order.
C2_Idempotent ==
    \A i, j \in Answered :
        responses[i].Text = responses[j].Text => responses[i].Receipt = responses[j].Receipt

\* What a line gives the total by its keyword, and as a standalone number
\* (0: nothing)
keywordTotalOf(line) ==
    LET m == totalPattern(line)
    IN  IF m = <<>> THEN 0 ELSE Hundredths(ParseFloat(ReplaceComma(m[3])))

standaloneTotalOf(line) ==
    LET m == standaloneTotalPattern(line)
    IN  IF m = <<>> THEN 0
        ELSE LET v == Hundredths(ParseFloat(ReplaceComma(m[2])))
             IN  IF v > StandaloneThreshold THEN v ELSE 0

KeywordLines(t)    == {k \in 1..Len(t) : keywordTotalOf(t[k]) # 0}
StandaloneLines(t) == {k \in 1..Len(t) : standaloneTotalOf(t[k]) # 0}

First(S) == CHOOSE k \in S : \A j \in S : k <= j

\* The first line with a nonzero keyword total comes before every standalone
\* number above the threshold, and there is such a number
KeywordThenStandalone(t) ==
    /\ KeywordLines(t) # {}
    /\ StandaloneLines(t) # {}
    /\ First(KeywordLines(t)) < First(StandaloneLines(t))

\* C3: when a line has a total keyword followed by a nonzero decimal number v
\* (the first such line) and the standalone numbers above the threshold come
\* only later in the text, the returned total_amount is v.
C3_KeywordTotalPrecedence ==
    \A i \in Answered :
        LET t == responses[i].Text
        IN  KeywordThenStandalone(t) =>
                responses[i].Receipt.TotalAmount = keywordTotalOf(t[First(KeywordLines(t))])

\* A text with a keyword total and a later, different standalone number has
\* been answered
C3_Witness ==
    \E i \in Answered :
        LET t == responses[i].Text
        IN  /\ KeywordThenStandalone(t)
            /\ standaloneTotalOf(t[First(StandaloneLines(t))])
                   # keywordTotalOf(t[First(KeywordLines(t))])
            /\ responses[i].Receipt.TotalAmount # 0

\* What a line would set the total to, were it not set
lineTotalOf(line) ==
    IF keywordTotalOf(line) # 0 THEN keywordTotalOf(line) ELSE standaloneTotalOf(line)

firstTotalOf(t) ==
    LET S == {k \in 1..Len(t) : lineTotalOf(t[k]) # 0}
    IN  IF S = {} THEN 0 ELSE lineTotalOf(t[First(S)])

\* C4: during the scan, once total_amount is nonzero no later line changes
\* it, keyword total or standalone number; the returned total_amount is the
\* first nonzero value a line gave.
C4_WriteOnceTotal ==
    /\ [][(pc = "scan" /\ pc' = "scan" /\ receipt.TotalAmount # 0)
            => receipt'.TotalAmount = receipt.TotalAmount]_vars
    /\ [](\A i \in Answered :
            responses[i].Receipt.TotalAmount = firstTotalOf(responses[i].Text))

\* The scan is at a line that gives another total than the one already set
C4_Witness ==
    /\ pc = "scan"
    /\ idx <= Len(texts)
    /\ receipt.TotalAmount # 0
    /\ lineTotalOf(texts[idx]) \notin {0, receipt.TotalAmount}

\* strings.TrimSpace
RECURSIVE TrimLeft(_)
TrimLeft(s) == IF s # <<>> /\ Head(s) \in Space THEN TrimLeft(Tail(s)) ELSE s

RECURSIVE TrimRight(_)
TrimRight(s) ==
    IF s # <<>> /\ s[Len(s)] \in Space THEN TrimRight(SubSeq(s, 1, Len(s) - 1)) ELSE s

TrimSpace(s) == TrimRight(TrimLeft(s))

\* The line carries one of the keywords of totalPattern, in either case
HasTotalKeyword(line) ==
    \E k \in {Suma, Total, Razem} : Contains(ToLower(line), k)

\* The line is nothing but <integer quantity> x<unit price> <line total>,
\* with or without the C
OnlyQuantityTokens(line) ==
    LET m == simpleItemPattern(line) IN m # <<>> /\ m[1] = line

\* A line that is a name: not empty, without a total keyword and not itself
\* a quantity line
IsName(line) ==
    /\ TrimSpace(line) # <<>>
    /\ ~HasTotalKeyword(line)
    /\ itemPattern(line) = <<>>
    /\ unicodeItemPattern(line) = <<>>

\* C5: scanning a line i > 0 that consists only of the quantity tokens, below
\* a line that is a name without a total keyword, appends exactly one item:
\* its name is line i-1 trimmed, its price the line total and its quantity
\* the integer quantity.
C5_ItemNamedByPreviousLine ==
    [][(/\ pc = "scan"
        /\ idx > 1
        /\ idx <= Len(texts)
        /\ OnlyQuantityTokens(texts[idx])
        /\ IsName(texts[idx - 1]))
          => LET m == simpleItemPattern(texts[idx])
                 n == Len(receipt.Items)
             IN  /\ pc' = "scan"
                 /\ Len(receipt'.Items) = n + 1
                 /\ SubSeq(receipt'.Items, 1, n) = receipt.Items
                 /\ receipt'.Items[n + 1].Name = TrimSpace(texts[idx - 1])
                 /\ receipt'.Items[n + 1].Price = Hundredths(ParseFloat(ReplaceComma(m[4])))
                 /\ receipt'.Items[n + 1].Quantity = Atoi(m[2])]_vars

\* The quantity of the item line is an integer: what stands before the x is
\* digits only
IntegerQuantity(line) ==
    /\ multiplicationSignAt(line) # 0
    /\ itemPattern(line) # <<>>
    /\ simpleItemPattern(line) # <<>>
    /\ itemPattern(line)[2] = simpleItemPattern(line)[2]

\* C6: a text and the same text with the x of one integer-quantity item line
\* replaced by the multiplication sign give the same items: the same lines
\* kept and dropped, the same names, prices, quantities and categories.
\* Stated for the last line of a text, which names no item below it, where
\* no other line has the same text.
C6_UnicodeSignSameItems ==
    \A i, j \in Answered :
        LET t == responses[i].Text
        IN  (/\ t # <<>>
             /\ IntegerQuantity(t[Len(t)])
             /\ \A k \in 1..(Len(t) - 1) : t[k] # t[Len(t)]
             /\ responses[j].Text = glyphVariant(t, Len(t)))
                => responses[j].Receipt.Items = responses[i].Receipt.Items

\* C7: a line that carries a total keyword is never itself made a
\* ReceiptItem, also when it matches a quantity pattern: scanning it leaves
\* the items as they are.
C7_TotalLineIsNoItem ==
    [][(pc = "scan" /\ idx <= Len(texts) /\ HasTotalKeyword(texts[idx]))
          => receipt'.Items = receipt.Items]_vars

\* C8: every ReceiptItem has a quantity of at least 1 and a price of at
\* least 0.
C8_QuantityAtLeastOne ==
    \A it \in EveryItem : it.Quantity >= 1 /\ it.Price >= 0

\* C9: categorizeItem is deterministic: the same description is given the
\* same category by every invocation.
C9_CategoryDeterministic ==
    \A a, b \in EveryItem : a.Name = b.Name => a.Category = b.Category

\* The categories that own a keyword found in the case-folded description
OwnersOf(name) ==
    {c.category : c \in {d \in categories :
        \E k \in d.keywords :
            \E p \in 1..Len(name) :
                /\ p + Len(k) - 1 <= Len(name)
                /\ \A q \in 1..Len(k) : ToLowerChar(name[p + q - 1]) = k[q]}}

\* C10: categorizeItem returns one of the eight category names or "Other";
\* "Other" exactly when no keyword of any category is a substring of the
\* case-folded description; otherwise a category that owns such a keyword.
C10_CategoryDefault ==
    /\ Cardinality(CategoryNames) = 8
    /\ \A it \in EveryItem :
          /\ it.Category \in CategoryNames \cup {Other}
          /\ it.Category = Other <=> OwnersOf(it.Name) = {}
          /\ it.Category # Other => it.Category \in OwnersOf(it.Name)

\* An answered receipt has an item named XYZ123 of category Other and an item
\* with a keyword in capitals, of the category of that keyword
C10_Witness ==
    \E i \in Answered :
        /\ \E it \in ItemsOf(responses[i].Receipt) :
              it.Name = LineXYZ /\ it.Category = Other
        /\ \E it \in ItemsOf(responses[i].Receipt) :
              it.Name = LineMleko /\ it.Category = "Dairy"

\* The line has a business-suffix marker
HasMarker(line) == Contains(line, BusinessSuffix1) \/ Contains(line, BusinessSuffix2)

\* The lines of the first text block
firstBlock(t) == IF t = <<>> THEN <<>> ELSE Split(t[1])

\* The merchant the rule gives: the first line of a block of five or fewer
\* lines; else the first marked line among the first six, else the sixth
merchantOf(t) ==
    IF t = <<>> THEN <<>>
    ELSE LET lines == firstBlock(t)
             marked == {k \in 1..6 : k <= Len(lines) /\ HasMarker(lines[k])}
         IN  IF Len(lines) <= 5 THEN lines[1]
             ELSE IF marked = {} THEN lines[6]
             ELSE lines[First(marked)]

\* C11: the merchant comes from the first text block only, split into lines:
\* with five or fewer lines it is the first line as it is, marker elsewhere or
\* not; with more than five it is the first of the first six lines that has
\* a business-suffix marker, else the sixth line; a marker on the seventh or a
\* later line is never used; with an empty input it is empty.
C11_MerchantSelection ==
    /\ pc = "scan" => receipt.Merchant = merchantOf(texts)
    /\ \A i \in Answered : responses[i].Receipt.Merchant = merchantOf(responses[i].Text)

\* Answered: a block of more than six lines with its only markers below the
\* sixth, followed by a text with a marker
C11_Witness ==
    \E i \in Answered :
        LET lines == firstBlock(responses[i].Text)
        IN  /\ Len(lines) > 6
            /\ \A k \in 1..6 : ~HasMarker(lines[k])
            /\ \E k \in 7..Len(lines) : HasMarker(lines[k])
            /\ Len(responses[i].Text) > 1
            /\ HasMarker(responses[i].Text[2])
            /\ responses[i].Receipt.Merchant = lines[6]

\* C12: a standalone number is taken as total_amount only when no line of
\* the whole text gives a nonzero keyword total; when some line does,
\* total_amount is the first such keyword total, wherever the standalone
\* numbers stand.
C12_TierOrdering ==
    \A i \in Answered :
        LET t == responses[i].Text
        IN  responses[i].Receipt.TotalAmount =
                IF KeywordLines(t) # {}
                THEN keywordTotalOf(t[First(KeywordLines(t))])
                ELSE IF StandaloneLines(t) # {}
                     THEN standaloneTotalOf(t[First(StandaloneLines(t))])
                     ELSE 0

\* C13: whichever quantity pattern matched, a match whose name holds suma,
\* total or razem in either case is dropped: no item of any receipt has a
\* name with one of these keywords.
C13_NoKeywordInItemName ==
    \A it \in EveryItem : ~HasTotalKeyword(it.Name)

\* The whole match of the quantity pattern that matches the line (<<>>: none)
quantityTokens(line) ==
    IF itemPattern(line) # <<>> THEN itemPattern(line)[1]
    ELSE IF unicodeItemPattern(line) # <<>> THEN unicodeItemPattern(line)[1]
    ELSE <<>>

\* The line without its price and quantity tokens, trimmed
remainderOf(line) ==
    LET w == quantityTokens(line)
        p == CHOOSE q \in 1..Len(line) :
                 /\ SubSeq(line, q, q + Len(w) - 1) = w
                 /\ \A r \in 1..(q - 1) : SubSeq(line, r, r + Len(w) - 1) # w
    IN  IF w = <<>> THEN TrimSpace(line)
        ELSE TrimSpace(SubSeq(line, 1, p - 1) \o SubSeq(line, p + Len(w), Len(line)))

\* C14: scanning a line that matches a quantity pattern and has text other
\* than whitespace left when the price and quantity tokens are taken away
\* (and no total keyword in it) appends one item whose name is that text,
\* trimmed, and not the line before.
C14_NameFromRemainder ==
    [][(/\ pc = "scan"
        /\ idx <= Len(texts)
        /\ quantityTokens(texts[idx]) # <<>>
        /\ remainderOf(texts[idx]) # <<>>
        /\ ~HasTotalKeyword(texts[idx]))
          => /\ Len(receipt'.Items) = Len(receipt.Items) + 1
             /\ receipt'.Items[Len(receipt'.Items)].Name = remainderOf(texts[idx])]_vars

\* dddd-dd-dd stands at position p of the line
DateShapedAt(line, p) ==
    /\ p + 9 <= Len(line)
    /\ \A q \in {0, 1, 2, 3, 5, 6, 8, 9} : line[p + q] \in Digit
    /\ line[p + 4] = "-"
    /\ line[p + 7] = "-"

DatePositions(line) == {p \in 1..Len(line) : DateShapedAt(line, p)}

\* The lines that hold a date-shaped text
DatedLines(t) == {k \in 1..Len(t) : DatePositions(t[k]) # {}}

\* The leftmost date-shaped text of the first line that holds one
firstDateOf(t) ==
    IF DatedLines(t) = {} THEN <<>>
    ELSE LET line == t[First(DatedLines(t))]
             p == First(DatePositions(line))
         IN  SubSeq(line, p, p + 9)

\* C15: the returned date is the leftmost date-shaped text (dddd-dd-dd) of
\* the first line that holds one, as it stands and whatever month or day it
\* names, and empty when no line holds one; once set during the scan no later
\* line changes it.
C15_DateFirstMatch ==
    /\ [](\A i \in Answered : responses[i].Receipt.Date = firstDateOf(responses[i].Text))
    /\ [][(pc = "scan" /\ pc' = "scan" /\ receipt.Date # <<>>)
            => receipt'.Date = receipt.Date]_vars

\* Answered with the date of month 13, from a text with another date on a
\* later line
C15_Witness ==
    \E i \in Answered :
        LET t == responses[i].Text
        IN  /\ responses[i].Receipt.Date = <<"2", "0", "2", "3", "-", "1", "3", "-", "4", "5">>
            /\ \E k \in DatedLines(t) :
                  k > First(DatedLines(t)) /\ firstDateOf(<<t[k]>>) # responses[i].Receipt.Date

\* What the first pattern of the chain that matches the line gives: price
\* and quantity (none: no pattern matches)
firstPattern(line) ==
    IF itemPattern(line) # <<>>
    THEN [none |-> FALSE,
          Price |-> Hundredths(ParseFloat(ReplaceComma(itemPattern(line)[4]))),
          Quantity |-> IntOf(ParseFloat(ReplaceComma(itemPattern(line)[2])))]
    ELSE IF unicodeItemPattern(line) # <<>>
    THEN [none |-> FALSE,
          Price |-> Hundredths(ParseFloat(ReplaceComma(unicodeItemPattern(line)[4]))),
          Quantity |-> Atoi(unicodeItemPattern(line)[2])]
    ELSE [none |-> TRUE, Price |-> 0, Quantity |-> 0]

\* C16: each line gives at most one item, that of the first pattern of the
\* chain that matches it, and a line whose first pattern is dropped gives
\* none; there are never more items than lines scanned; the scan only appends
\* to the items, line after line, so the items stand in the order of their
\* lines.
C16_OneItemPerLineInOrder ==
    /\ [](pc = "scan" => Len(receipt.Items) <= idx - 1)
    /\ [](\A i \in Answered : Len(responses[i].Receipt.Items) <= Len(responses[i].Text))
    /\ [][(pc = "scan" /\ idx <= Len(texts))
            => LET n == Len(receipt.Items)
                   f == firstPattern(texts[idx])
               IN  /\ idx' = idx + 1
                   /\ \/ receipt'.Items = receipt.Items
                      \/ /\ ~f.none
                         /\ Len(receipt'.Items) = n + 1
                         /\ SubSeq(receipt'.Items, 1, n) = receipt.Items
                         /\ receipt'.Items[n + 1].Price = f.Price
                         /\ receipt'.Items[n + 1].Quantity = f.Quantity]_vars

\* The scan has appended the item of a line that both signs match, after
\* the item of another line
C16_Witness ==
    /\ pc = "scan"
    /\ idx > 2
    /\ texts[idx - 1] = LineBothSigns
    /\ Len(receipt.Items) >= 2
    /\ receipt.Items[Len(receipt.Items)].Price = 399
    /\ receipt.Items[Len(receipt.Items) - 1].Price # 399

\* C17: an iteration of the scan writes date from the old date and the line
\* only, total_amount from the old total and the line only, and items only
\* by appending; it leaves merchant, raw_text and the input as they are; the
\* returned raw_text is the input, and the returned date and total are what
\* the text gives whatever the other fields hold.
C17_DisjointWrites ==
    /\ [][(pc = "scan" /\ pc' = "scan")
            => LET line == texts[idx]
                   n == Len(receipt.Items)
               IN  /\ texts' = texts
                   /\ receipt'.Merchant = receipt.Merchant
                   /\ receipt'.RawText = receipt.RawText
                   /\ receipt'.Date =
                          IF receipt.Date = <<>> THEN firstDateOf(<<line>>) ELSE receipt.Date
                   /\ receipt'.TotalAmount =
                          IF receipt.TotalAmount = 0 THEN lineTotalOf(line) ELSE receipt.TotalAmount
                   /\ Len(receipt'.Items) >= n
                   /\ SubSeq(receipt'.Items, 1, n) = receipt.Items
                   /\ receipt'.Items # receipt.Items => quantityTokens(line) # <<>>]_vars
    /\ [](\A i \in Answered :
            /\ responses[i].Receipt.RawText = responses[i].Text
            /\ responses[i].Receipt.Merchant = merchantOf(responses[i].Text)
            /\ responses[i].Receipt.Date = firstDateOf(responses[i].Text)
            /\ responses[i].Receipt.TotalAmount = firstTotalOf(responses[i].Text))

\* The scan has passed a second line that gave the date, the total and an
\* item at once
C17_Witness ==
    /\ pc = "scan"
    /\ idx = 3
    /\ texts[1] = LineMilk
    /\ texts[2] = LineAll
    /\ receipt.Merchant = LineMilk
    /\ receipt.Date # <<>>
    /\ receipt.TotalAmount # 0
    /\ receipt.Items # <<>>

\* The receipts parseReceiptData can return for the text t when it runs
\* alone, from line k on with the receipt r in hand
RECURSIVE scanAlone(_, _, _)
scanAlone(t, k, r) ==
    IF k > Len(t) THEN {r}
    ELSE UNION {scanAlone(t, k + 1,
                    [r EXCEPT !.Date = extractDate(r.Date, t[k]),
                              !.TotalAmount = extractStandaloneTotal(extractTotal(r.TotalAmount, t[k]), t[k]),
                              !.Items = out.Items]) :
                  out \in {o \in extractItems(r.Items, t, t[k]) : ~o.panic}}

parseAlone(t) == scanAlone(t, 1, [EmptyReceipt(t) EXCEPT !.Merchant = extractMerchant(t)])

\* C18: with requests parsed concurrently, in any interleaving of their
\* steps, the Receipt of each request is one that parsing its own text alone
\* returns, and a step of one request leaves the texts, the receipt and the
\* answer of every other request as they are.
C18_RequestIsolation ==
    /\ [](\A r \in Requests :
            /\ pc[r] # "panic"
            /\ pc[r] = "done" =>
                  /\ responses[r][1].Text = texts[r]
                  /\ responses[r][1].Receipt \in parseAlone(texts[r]))
    /\ [][\A r \in Requests :
            /\ texts'[r] = texts[r]
            /\ (pc'[r] = pc[r] /\ idx'[r] = idx[r])
                  => receipt'[r] = receipt[r] /\ responses'[r] = responses[r]]_vars

\* Two requests with different texts are both inside the loop, each with an
\* item made and a line to go
C18_Witness ==
    /\ \A r \in {1, 2} :
          /\ pc[r] = "scan"
          /\ idx[r] = 2
          /\ Len(texts[r]) = 2
          /\ receipt[r].Items # <<>>
    /\ texts[1] # texts[2]

\* The element before the smallest index j > 0 (0-based) at which t equals
\* L, or "Unknown Item" without such a j
nameOf(t, L) ==
    LET J == {j \in 2..Len(t) : t[j] = L}
    IN  IF J = {} THEN UnknownItem ELSE t[First(J) - 1]

=============================================================================
